---------------------------- MODULE Spec2Model ----------------------------
(***************************************************************************)
(* A model of run_ipsae_batch.py: discovery of PAE/CIF pairs under         *)
(* <out_dir>/predictions, one invocation of the scoring tool per pair,     *)
(* parsing and tagging of each report, concatenation, and the final        *)
(* partitioned CSV writes.                                                 *)
(*                                                                         *)
(* Strings are sequences of lexemes ("pae_", "a", "_", "model_", "0",      *)
(* ".npz", ...): no lexeme is a substring of a concatenation of others, so *)
(* substring search on lexeme sequences agrees with substring search on    *)
(* the characters.  A path is [dir |-> <<component, ...>>, base |-> name]; *)
(* a path with dir = <<>> is relative to the current working directory.    *)
(***************************************************************************)
EXTENDS Integers, Sequences, FiniteSets, TLC

VARIABLES
    pc,              \* position of main / of the function under check
    out_dir_exists,  \* os.path.exists(args.out_dir)
    script_exists,   \* os.path.exists(args.ipsae_script)
    predictions,     \* the directory <out_dir>/predictions: [exists, entries]
    structure_pairs, \* the list find_boltz_structures returned
    warnings,        \* number of "Warning: CIF file not found" lines logged
    idx,             \* 1-based index of the pair the loop is at
    invoked,         \* history: the pairs run_ipsae was called for, in order
    parsed,          \* history: per processed pair, the table parsed (or None)
    all_results,     \* the list all_results of tagged tables
    cwd_files,       \* report files present in the current working directory
    combined_df,     \* the concatenated table
    pending_types,   \* the part of actual_types the type loop has yet to visit
    csv_files,       \* the output files on disk: set of [file, df]
    writes,          \* history: every to_csv call, in order: [file, df, by]
    exit_status,     \* "running", or the process exit status 0 / 1
    call,            \* the arguments and environment of one run_ipsae call
    ret              \* the value that run_ipsae call returned

vars == << pc, out_dir_exists, script_exists, predictions, structure_pairs,
           warnings, idx, invoked, parsed, all_results, cwd_files,
           combined_df, pending_types, csv_files, writes, exit_status,
           call, ret >>

-----------------------------------------------------------------------------
(* Bounds of the model.                                                    *)

MaxFolders == 2
MaxFiles == 2
MaxRows == 2

-----------------------------------------------------------------------------
(* Strings.                                                                *)

None == [none |-> TRUE]

NaN == "NaN"

StartsWith(s, p) ==
    /\ Len(s) >= Len(p)
    /\ SubSeq(s, 1, Len(p)) = p

EndsWith(s, p) ==
    /\ Len(s) >= Len(p)
    /\ SubSeq(s, Len(s) - Len(p) + 1, Len(s)) = p

\* str.replace(old, ""): every non-overlapping occurrence of old, scanning
\* from the left, is removed.
RECURSIVE Remove(_, _)
Remove(s, old) ==
    IF Len(s) < Len(old) THEN s
    ELSE IF StartsWith(s, old)
         THEN Remove(SubSeq(s, Len(old) + 1, Len(s)), old)
         ELSE <<Head(s)>> \o Remove(Tail(s), old)

\* str() of a non-negative int.
Digit == <<"0", "1", "2", "3", "4", "5", "6", "7", "8", "9">>

RECURSIVE IntStr(_)
IntStr(n) ==
    IF n < 10 THEN <<Digit[n + 1]>>
    ELSE IntStr(n \div 10) \o <<Digit[(n % 10) + 1]>>

\* str() of a float given in tenths: 150 is 15.0 and prints as "15.0".
FloatStr(tenths) == IntStr(tenths \div 10) \o <<".">> \o IntStr(tenths % 10)

-----------------------------------------------------------------------------
(* Paths.                                                                  *)

join(dir, name) == [dir |-> dir, base |-> name]

basename(p) == p.base

dirname(p) == p.dir

IsDot(tok) == tok \in {".", ".npz", ".cif", ".txt", ".csv"}

\* os.path.splitext(name)[0]: the name up to its last dot, a leading dot
\* excepted.
splitext(name) ==
    LET dots == {i \in 2..Len(name) : IsDot(name[i])}
    IN  IF dots = {} THEN name
        ELSE SubSeq(name, 1, (CHOOSE i \in dots : \A j \in dots : j <= i) - 1)

OutDir == <<"out">>

PredictionsDir == <<OutDir, <<"predictions">>>>

-----------------------------------------------------------------------------
(* find_boltz_structures.                                                  *)

Range(s) == {s[i] : i \in 1..Len(s)}

\* The sequences over S of at most n elements, no element twice.
DistinctSeqs(S, n) ==
    {s \in UNION {[1..k -> S] : k \in 0..n} :
        \A i, j \in 1..Len(s) : i # j => s[i] # s[j]}

\* fnmatch of a file name against f"pae_{input_folder}_model_*.npz".
GlobMatch(name, input_folder) ==
    LET prefix == <<"pae_">> \o input_folder \o <<"_", "model_">>
    IN  /\ StartsWith(name, prefix)
        /\ EndsWith(name, <<".npz">>)
        /\ Len(name) >= Len(prefix) + 1

\* glob.glob(os.path.join(input_path, pattern)), in listing order.
RECURSIVE glob(_, _)
glob(files, input_folder) ==
    IF files = <<>> THEN <<>>
    ELSE IF GlobMatch(Head(files), input_folder)
         THEN <<Head(files)>> \o glob(Tail(files), input_folder)
         ELSE glob(Tail(files), input_folder)

\* pae_basename.replace(f"pae_{input_folder}_", "").replace(".npz", "")
model_part(pae_basename, input_folder) ==
    Remove(Remove(pae_basename, <<"pae_">> \o input_folder \o <<"_">>),
           <<".npz">>)

\* f"{input_folder}_{model_part}.cif"
cif_name(pae_basename, input_folder) ==
    input_folder \o <<"_">> \o model_part(pae_basename, input_folder)
        \o <<".cif">>

\* The loop over pae_files of one folder: the pairs appended and the
\* warnings printed.
RECURSIVE ScanFiles(_, _)
ScanFiles(entry, pae_files) ==
    IF pae_files = <<>> THEN [pairs |-> <<>>, warnings |-> 0]
    ELSE LET input_path == PredictionsDir \o <<entry.name>>
             pae_basename == Head(pae_files)
             cif == cif_name(pae_basename, entry.name)
             rest == ScanFiles(entry, Tail(pae_files))
         IN  IF cif \in Range(entry.files)
             THEN [pairs |-> <<[pae_file |-> join(input_path, pae_basename),
                                cif_file |-> join(input_path, cif),
                                input_name |-> entry.name]>> \o rest.pairs,
                   warnings |-> rest.warnings]
             ELSE [pairs |-> rest.pairs, warnings |-> rest.warnings + 1]

\* The loop over os.listdir(predictions_dir).
RECURSIVE ScanFolders(_)
ScanFolders(entries) ==
    IF entries = <<>> THEN [pairs |-> <<>>, warnings |-> 0]
    ELSE LET entry == Head(entries)
             rest == ScanFolders(Tail(entries))
         IN  IF ~entry.isdir THEN rest
             ELSE LET here == ScanFiles(entry, glob(entry.files, entry.name))
                  IN  [pairs |-> here.pairs \o rest.pairs,
                       warnings |-> here.warnings + rest.warnings]

find_boltz_structures(pred) ==
    IF ~pred.exists THEN [pairs |-> <<>>, warnings |-> 0]
    ELSE ScanFolders(pred.entries)

-----------------------------------------------------------------------------
(* run_ipsae.                                                              *)

\* f"{cif_basename}_{pae_cutoff}_{dist_cutoff}.txt"
output_txt_name(cif_file, pae_cutoff, dist_cutoff) ==
    splitext(basename(cif_file)) \o <<"_">> \o FloatStr(pae_cutoff)
        \o <<"_">> \o FloatStr(dist_cutoff) \o <<".txt">>

\* A lookup that tries the structure file's directory first.
run_ipsae_cif_dir_first(status, exists, cif_file, pae_cutoff, dist_cutoff) ==
    IF status # "ok" THEN None
    ELSE LET output_txt == output_txt_name(cif_file, pae_cutoff, dist_cutoff)
             current_dir_output == join(<<>>, output_txt)
             cif_dir_output == join(dirname(cif_file), output_txt)
         IN  IF cif_dir_output \in exists THEN cif_dir_output
             ELSE IF current_dir_output \in exists THEN current_dir_output
             ELSE None

\* status is how subprocess.run ended: "ok" (exit status 0), "nonzero"
\* (CalledProcessError) or "exception" (any other exception); exists is the
\* set of paths present once the tool has run.
run_ipsae(status, exists, cif_file, pae_cutoff, dist_cutoff) ==
    IF status # "ok" THEN None
    ELSE LET output_txt == output_txt_name(cif_file, pae_cutoff, dist_cutoff)
             current_dir_output == join(<<>>, output_txt)
             cif_dir_output == join(dirname(cif_file), output_txt)
         IN  IF current_dir_output \in exists THEN current_dir_output
             ELSE IF cif_dir_output \in exists THEN cif_dir_output
             ELSE None

-----------------------------------------------------------------------------
(* Tables.  A table is [columns |-> set of names, rows |-> sequence of     *)
(* functions from the columns to values]; NaN is the absent value.         *)

MetaColumns == {"input_name", "pae_file", "cif_file"}

\* A tagging that puts the two file names in each other's column.
AddMetadataSwapped(df, pair) ==
    [columns |-> df.columns \cup MetaColumns,
     rows |-> [i \in 1..Len(df.rows) |->
                 [c \in df.columns \cup MetaColumns |->
                     IF c = "input_name" THEN pair.input_name
                     ELSE IF c = "pae_file" THEN basename(pair.cif_file)
                     ELSE IF c = "cif_file" THEN basename(pair.pae_file)
                     ELSE df.rows[i][c]]]]

\* df['input_name'] = ...; df['pae_file'] = ...; df['cif_file'] = ...
AddMetadata(df, pair) ==
    [columns |-> df.columns \cup MetaColumns,
     rows |-> [i \in 1..Len(df.rows) |->
                 [c \in df.columns \cup MetaColumns |->
                     IF c = "input_name" THEN pair.input_name
                     ELSE IF c = "pae_file" THEN basename(pair.pae_file)
                     ELSE IF c = "cif_file" THEN basename(pair.cif_file)
                     ELSE df.rows[i][c]]]]

RECURSIVE AllColumns(_)
AllColumns(dfs) ==
    IF dfs = <<>> THEN {} ELSE Head(dfs).columns \cup AllColumns(Tail(dfs))

\* One table's rows re-indexed on the columns cols, NaN where it has none.
Reindex(df, cols) ==
    [i \in 1..Len(df.rows) |->
        [c \in cols |-> IF c \in df.columns THEN df.rows[i][c] ELSE NaN]]

RECURSIVE ConcatRows(_, _)
ConcatRows(dfs, cols) ==
    IF dfs = <<>> THEN <<>>
    ELSE Reindex(Head(dfs), cols) \o ConcatRows(Tail(dfs), cols)

\* pd.concat(all_results, ignore_index=True)
concat(dfs) ==
    [columns |-> AllColumns(dfs), rows |-> ConcatRows(dfs, AllColumns(dfs))]

\* The comparison == of pandas: NaN equals nothing, itself included.
PdEq(a, b) == a # NaN /\ b # NaN /\ a = b

\* Series.unique(): the values in order of first appearance, NaN among them.
RECURSIVE unique(_)
unique(values) ==
    IF values = <<>> THEN <<>>
    ELSE LET front == unique(SubSeq(values, 1, Len(values) - 1))
             last == values[Len(values)]
         IN  IF last \in Range(front) THEN front ELSE Append(front, last)

Column(df, c) == [i \in 1..Len(df.rows) |-> df.rows[i][c]]

RECURSIVE SelectRows(_, _, _)
SelectRows(rows, c, v) ==
    IF rows = <<>> THEN <<>>
    ELSE IF PdEq(Head(rows)[c], v)
         THEN <<Head(rows)>> \o SelectRows(Tail(rows), c, v)
         ELSE SelectRows(Tail(rows), c, v)

\* A selection that forgets its mask.
SelectTypeAll(df, interaction_type) == df

\* combined_df[combined_df['Type'] == interaction_type]
SelectType(df, interaction_type) ==
    [columns |-> df.columns,
     rows |-> SelectRows(df.rows, "Type", interaction_type)]

\* combined_df[(combined_df['Chn1'] == c1) & (combined_df['Chn2'] == c2)]
SelectChains(df, c1, c2) ==
    [columns |-> df.columns,
     rows |-> SelectRows(SelectRows(df.rows, "Chn1", c1), "Chn2", c2)]

empty(df) == df.rows = <<>> \/ df.columns = {}

OutputPrefix == "ipsae_results"

\* f"{args.output_prefix}_{tag}.csv"
output_file(tag) == <<OutputPrefix, "_", tag, ".csv">>

\* DataFrame.to_csv(file): the file is created or overwritten.
to_csv(files, file, df) ==
    {f \in files : f.file # file} \cup {[file |-> file, df |-> df]}

-----------------------------------------------------------------------------
(* Inputs: directory layouts, tool outcomes and report contents.           *)

IsNone(x) == "none" \in DOMAIN x

\* --pae_cutoff and --dist_cutoff, in tenths (default 15.0).
DefaultCutoff == 150

Cutoffs == {DefaultCutoff, 5}

ToolStatus == {"ok", "nonzero", "exception"}

Groups == {<<"a">>, <<"b">>}

\* Boltz's naming convention: pae_<group>_model_<x>.npz, <group>_model_<x>.cif
Pae(g, x) == <<"pae_">> \o g \o <<"_", "model_">> \o x \o <<".npz">>

Cif(g, x) == g \o <<"_", "model_">> \o x \o <<".cif">>

Dir(g, files) == [name |-> g, isdir |-> TRUE, files |-> files]

NotDir(g) == [name |-> g, isdir |-> FALSE, files |-> <<>>]

Absent == [exists |-> FALSE, entries |-> <<>>]

Present(entries) == [exists |-> TRUE, entries |-> entries]

\* The layouts main is run on.
MainLayouts ==
    LET a == <<"a">>
        b == <<"b">>
        A0 == Dir(a, <<Pae(a, <<"0">>)>>)
        A1 == Dir(a, <<Pae(a, <<"0">>), Cif(a, <<"0">>)>>)
        B1 == Dir(b, <<Cif(b, <<"0">>), Pae(b, <<"0">>)>>)
    IN  {Absent, Present(<<>>), Present(<<A0>>), Present(<<A1>>),
         Present(<<NotDir(a), B1>>), Present(<<B1, A0>>),
         Present(<<A1, B1>>)}

\* The wildcard parts of the PAE and CIF names discovery is checked on.
Wild(g) == {<<"0">>, <<"pae_">> \o g \o <<"_", "0">>, <<"0", ".npz">>}

FolderFiles(g) ==
    {Pae(g, x) : x \in Wild(g)} \cup {Cif(g, x) : x \in Wild(g)}

FolderEntries ==
    {NotDir(g) : g \in Groups}
    \cup UNION {{Dir(g, fs) : fs \in DistinctSeqs(FolderFiles(g), MaxFiles)} :
                   g \in Groups}

\* The layouts find_boltz_structures is checked on.
DiscoveryLayouts ==
    {Absent} \cup
    {Present(es) : es \in
        {s \in UNION {[1..k -> FolderEntries] : k \in 0..MaxFolders} :
            \A i, j \in 1..Len(s) : i # j => s[i].name # s[j].name}}

TypeValues == {"asym", "max", "complete", "A_to_B"}

ChainValues == {"A", "B"}

ColumnSets == {{"Chn1", "Chn2", "Type"}, {"Chn1", "Chn2"}, {"Type"}}

ColumnValues(c) == IF c = "Type" THEN TypeValues \cup {NaN} ELSE ChainValues

ReportRows(cols) ==
    {r \in [cols -> TypeValues \cup {NaN} \cup ChainValues] :
        \A c \in cols : r[c] \in ColumnValues(c)}

\* The tables a report can hold: a header with no rows under it, or a
\* header and at most n rows.
Reports(n) ==
    {[columns |-> {"Chn1", "Chn2", "Type"}, rows |-> <<>>]}
    \cup UNION {{[columns |-> cols, rows |-> rs] :
                   rs \in UNION {[1..k -> ReportRows(cols)] : k \in 1..n}} :
               cols \in ColumnSets}

Unparsable == [unparsable |-> TRUE]

\* pd.read_csv(txt_file, delim_whitespace=True), any exception giving None.
parse_ipsae_output(content) ==
    IF "unparsable" \in DOMAIN content THEN None ELSE content

RECURSIVE TotalRows(_)
TotalRows(tables) ==
    IF tables = <<>> THEN 0
    ELSE (IF IsNone(Head(tables)) THEN 0 ELSE Len(Head(tables).rows))
         + TotalRows(Tail(tables))

-----------------------------------------------------------------------------
(* main.                                                                   *)

NoCall == [status |-> "ok", exists |-> {}, cif_file |-> join(<<>>, <<>>),
           pae_cutoff |-> DefaultCutoff, dist_cutoff |-> DefaultCutoff]

EmptyTable == [columns |-> {}, rows |-> <<>>]

Idle ==
    /\ structure_pairs = <<>>
    /\ warnings = 0
    /\ idx = 1
    /\ invoked = <<>>
    /\ parsed = <<>>
    /\ all_results = <<>>
    /\ cwd_files = {}
    /\ combined_df = EmptyTable
    /\ pending_types = <<>>
    /\ csv_files = {}
    /\ writes = <<>>
    /\ exit_status = "running"
    /\ call = NoCall
    /\ ret = None

Init ==
    /\ pc = "start"
    /\ out_dir_exists \in BOOLEAN
    /\ script_exists \in BOOLEAN
    /\ predictions \in (IF out_dir_exists THEN MainLayouts ELSE {Absent})
    /\ Idle

\* A sys.exit that loses its argument.
ExitZero(status) ==
    /\ pc' = "done"
    /\ exit_status' = 0

\* sys.exit(status)
Exit(status) ==
    /\ pc' = "done"
    /\ exit_status' = status

\* The two os.path.exists checks at the top of main.
Validate ==
    /\ pc = "start"
    /\ IF ~out_dir_exists THEN Exit(1)
       ELSE IF ~script_exists THEN Exit(1)
       ELSE pc' = "discover" /\ UNCHANGED exit_status
    /\ UNCHANGED << out_dir_exists, script_exists, predictions,
                    structure_pairs, warnings, idx, invoked, parsed,
                    all_results, cwd_files, combined_df, pending_types,
                    csv_files, writes, call, ret >>

\* structure_pairs = find_boltz_structures(args.out_dir), and the exit when
\* it is empty.
Discover ==
    /\ pc = "discover"
    /\ LET found == find_boltz_structures(predictions)
       IN  /\ structure_pairs' = found.pairs
           /\ warnings' = found.warnings
           /\ IF found.pairs = <<>> THEN Exit(1)
              ELSE pc' = "loop" /\ UNCHANGED exit_status
    /\ UNCHANGED << out_dir_exists, script_exists, predictions, idx, invoked,
                    parsed, all_results, cwd_files, combined_df,
                    pending_types, csv_files, writes, call, ret >>

\* The files the tool leaves in the current directory: wrote says where it
\* put its report ("cwd", "cifdir" or "nowhere").
CwdAfterTool(pair, wrote) ==
    IF wrote = "cwd"
    THEN cwd_files \cup {output_txt_name(pair.cif_file, DefaultCutoff,
                                         DefaultCutoff)}
    ELSE cwd_files

ExistsAfterTool(pair, wrote) ==
    {join(<<>>, n) : n \in CwdAfterTool(pair, wrote)}
    \cup (IF wrote = "cifdir"
          THEN {join(dirname(pair.cif_file),
                     output_txt_name(pair.cif_file, DefaultCutoff,
                                     DefaultCutoff))}
          ELSE {})

\* A loop body in which a failing pair empties the list of results.
CollectOrReset(pair, cwd, output_txt, content) ==
    LET df == IF IsNone(output_txt) THEN None
              ELSE parse_ipsae_output(content)
    IN  /\ parsed' = Append(parsed, df)
        /\ cwd_files' = cwd
        /\ IF ~IsNone(df) /\ ~empty(df)
           THEN all_results' = Append(all_results, AddMetadata(df, pair))
           ELSE all_results' = <<>>

\* The body of the for loop once run_ipsae has returned output_txt and the
\* report holds content.
Collect(pair, cwd, output_txt, content) ==
    LET df == IF IsNone(output_txt) THEN None
              ELSE parse_ipsae_output(content)
    IN  /\ parsed' = Append(parsed, df)
        /\ IF ~IsNone(df) /\ ~empty(df)
           THEN /\ all_results' = Append(all_results, AddMetadata(df, pair))
                /\ cwd_files' = IF dirname(output_txt) = <<>>
                                THEN cwd \ {basename(output_txt)}
                                ELSE cwd
           ELSE /\ all_results' = all_results
                /\ cwd_files' = cwd

\* One iteration of the for loop over structure_pairs.
ProcessPair ==
    /\ pc = "loop"
    /\ idx <= Len(structure_pairs)
    /\ LET pair == structure_pairs[idx]
       IN  \E status \in ToolStatus, wrote \in {"cwd", "cifdir", "nowhere"} :
             /\ status # "ok" => wrote = "nowhere"
             /\ LET output_txt ==
                        run_ipsae(status, ExistsAfterTool(pair, wrote),
                                  pair.cif_file, DefaultCutoff, DefaultCutoff)
                IN  \E content \in
                         (IF IsNone(output_txt) THEN {Unparsable}
                          ELSE {Unparsable}
                               \cup Reports(MaxRows - TotalRows(parsed))) :
                      Collect(pair, CwdAfterTool(pair, wrote), output_txt,
                              content)
    /\ invoked' = Append(invoked, structure_pairs[idx])
    /\ idx' = idx + 1
    /\ UNCHANGED << pc, out_dir_exists, script_exists, predictions,
                    structure_pairs, warnings, combined_df, pending_types,
                    csv_files, writes, exit_status, call, ret >>

\* A loop left after its first iteration.
LoopFinishedEarly == idx > 1

\* The for loop over structure_pairs has run out of pairs.
LoopFinished == idx > Len(structure_pairs)

\* A test "if all_results:" that always passes.
NoResultsNever == FALSE

\* The negation of the test "if all_results:".
NoResults == all_results = <<>>

\* if all_results: combined_df = pd.concat(...) ... else "No results to save!"
Combine ==
    /\ pc = "loop"
    /\ LoopFinished
    /\ IF NoResults
       THEN /\ pc' = "done"
            /\ exit_status' = 0
            /\ UNCHANGED << combined_df, pending_types >>
       ELSE LET df == concat(all_results)
            IN  /\ combined_df' = df
                /\ exit_status' = exit_status
                /\ IF "Type" \in df.columns
                   THEN /\ pc' = "types"
                        /\ pending_types' = unique(Column(df, "Type"))
                   ELSE /\ pc' = "complete"
                        /\ pending_types' = pending_types
    /\ UNCHANGED << out_dir_exists, script_exists, predictions,
                    structure_pairs, warnings, idx, invoked, parsed,
                    all_results, cwd_files, csv_files, writes, call, ret >>

\* df.to_csv(file, index=False); by records which statement of main wrote.
Save(file, df, by) ==
    /\ csv_files' = to_csv(csv_files, file, df)
    /\ writes' = Append(writes, [file |-> file, df |-> df, by |-> by])

\* A selection is saved only if it is not empty.
SaveIfAny(file, df, by) ==
    IF ~empty(df) THEN Save(file, df, by)
    ELSE UNCHANGED << csv_files, writes >>

\* One iteration of the loop over actual_types.
WriteType ==
    /\ pc = "types"
    /\ pending_types # <<>>
    /\ LET interaction_type == Head(pending_types)
       IN  SaveIfAny(output_file(interaction_type),
                     SelectType(combined_df, interaction_type), "type")
    /\ pending_types' = Tail(pending_types)
    /\ UNCHANGED << pc, out_dir_exists, script_exists, predictions,
                    structure_pairs, warnings, idx, invoked, parsed,
                    all_results, cwd_files, combined_df, exit_status, call,
                    ret >>

\* The test for the chain columns, placed inside the branch for Type.
TypesDone ==
    /\ pc = "types"
    /\ pending_types = <<>>
    /\ pc' = IF {"Chn1", "Chn2"} \subseteq combined_df.columns
             THEN "chain_ab" ELSE "complete"
    /\ UNCHANGED << out_dir_exists, script_exists, predictions,
                    structure_pairs, warnings, idx, invoked, parsed,
                    all_results, cwd_files, combined_df, pending_types,
                    csv_files, writes, exit_status, call, ret >>

WriteAB ==
    /\ pc = "chain_ab"
    /\ SaveIfAny(output_file("A_to_B"), SelectChains(combined_df, "A", "B"),
                 "A_to_B")
    /\ pc' = "chain_ba"
    /\ UNCHANGED << out_dir_exists, script_exists, predictions,
                    structure_pairs, warnings, idx, invoked, parsed,
                    all_results, cwd_files, combined_df, pending_types,
                    exit_status, call, ret >>

WriteBA ==
    /\ pc = "chain_ba"
    /\ SaveIfAny(output_file("B_to_A"), SelectChains(combined_df, "B", "A"),
                 "B_to_A")
    /\ pc' = "complete"
    /\ UNCHANGED << out_dir_exists, script_exists, predictions,
                    structure_pairs, warnings, idx, invoked, parsed,
                    all_results, cwd_files, combined_df, pending_types,
                    exit_status, call, ret >>

\* combined_df.to_csv(complete_file), then main returns: exit status 0.
WriteComplete ==
    /\ pc = "complete"
    /\ Save(output_file("complete"), combined_df, "complete")
    /\ pc' = "done"
    /\ exit_status' = 0
    /\ UNCHANGED << out_dir_exists, script_exists, predictions,
                    structure_pairs, warnings, idx, invoked, parsed,
                    all_results, cwd_files, combined_df, pending_types,
                    call, ret >>

Next ==
    \/ Validate
    \/ Discover
    \/ ProcessPair
    \/ Combine
    \/ WriteType
    \/ TypesDone
    \/ WriteAB
    \/ WriteBA
    \/ WriteComplete

Spec == Init /\ [][Next]_vars

-----------------------------------------------------------------------------
(* find_boltz_structures on its own, over every layout of the bounds.      *)

InitDiscovery ==
    /\ pc = "find"
    /\ out_dir_exists = TRUE
    /\ script_exists = TRUE
    /\ predictions \in DiscoveryLayouts
    /\ Idle

Find ==
    /\ pc = "find"
    /\ LET found == find_boltz_structures(predictions)
       IN  /\ structure_pairs' = found.pairs
           /\ warnings' = found.warnings
    /\ pc' = "found"
    /\ UNCHANGED << out_dir_exists, script_exists, predictions, idx, invoked,
                    parsed, all_results, cwd_files, combined_df,
                    pending_types, csv_files, writes, exit_status, call, ret >>

NextDiscovery == Find

SpecDiscovery == InitDiscovery /\ [][NextDiscovery]_vars

-----------------------------------------------------------------------------
(* run_ipsae on its own, over tool outcomes, cutoffs and file systems.     *)

CifFiles ==
    UNION {{join(PredictionsDir \o <<g>>, Cif(g, x)) : x \in Wild(g)} :
           g \in Groups}

\* The report names a tool may use for one structure file: the cutoffs
\* printed as floats ("15.0") or as integers ("15").
ToolReportNames(cif_file, pae_cutoff, dist_cutoff) ==
    LET stem == SubSeq(cif_file.base, 1, Len(cif_file.base) - 1)
    IN  {stem \o <<"_">> \o FloatStr(pae_cutoff) \o <<"_">>
              \o FloatStr(dist_cutoff) \o <<".txt">>,
         stem \o <<"_">> \o IntStr(pae_cutoff \div 10) \o <<"_">>
              \o IntStr(dist_cutoff \div 10) \o <<".txt">>}

Calls ==
    UNION {{[status |-> st, exists |-> ex, cif_file |-> c,
             pae_cutoff |-> p, dist_cutoff |-> d] :
               st \in ToolStatus,
               ex \in SUBSET {join(dir, n) :
                                dir \in {<<>>, dirname(c)},
                                n \in ToolReportNames(c, p, d)}} :
           c \in CifFiles, p \in Cutoffs, d \in Cutoffs}

InitInvoke ==
    /\ pc = "call"
    /\ out_dir_exists = TRUE
    /\ script_exists = TRUE
    /\ predictions = Absent
    /\ structure_pairs = <<>>
    /\ warnings = 0
    /\ idx = 1
    /\ invoked = <<>>
    /\ parsed = <<>>
    /\ all_results = <<>>
    /\ cwd_files = {}
    /\ combined_df = EmptyTable
    /\ pending_types = <<>>
    /\ csv_files = {}
    /\ writes = <<>>
    /\ exit_status = "running"
    /\ call \in Calls
    /\ ret = None

Invoke ==
    /\ pc = "call"
    /\ ret' = run_ipsae(call.status, call.exists, call.cif_file,
                        call.pae_cutoff, call.dist_cutoff)
    /\ pc' = "returned"
    /\ UNCHANGED << out_dir_exists, script_exists, predictions,
                    structure_pairs, warnings, idx, invoked, parsed,
                    all_results, cwd_files, combined_df, pending_types,
                    csv_files, writes, exit_status, call >>

NextInvoke == Invoke

SpecInvoke == InitInvoke /\ [][NextInvoke]_vars

-----------------------------------------------------------------------------
(* Properties.                                                             *)

NothingWritten == writes = <<>> /\ csv_files = {}

\* The pairs whose report gave a table of at least one row.
Successes == {i \in 1..Len(parsed) : ~IsNone(parsed[i]) /\ parsed[i].rows # <<>>}

Failures == (1..Len(parsed)) \ Successes

\* C1: main ends with exit status 1 if the output directory is missing, the
\* scoring-tool path is missing or discovery returned no pair, and with exit
\* status 0 in every other run, a run in which some pairs fail included.
C1_ExitStatus ==
    /\ pc # "done" => exit_status = "running"
    /\ pc = "done" =>
          exit_status = IF \/ ~out_dir_exists
                           \/ ~script_exists
                           \/ find_boltz_structures(predictions).pairs = <<>>
                        THEN 1 ELSE 0

\* A finished run in which one pair failed and another succeeded.
C1_Witness ==
    /\ pc = "done"
    /\ exit_status = 0
    /\ Successes # {}
    /\ Failures # {}

FatalInput ==
    \/ ~out_dir_exists
    \/ ~script_exists
    \/ find_boltz_structures(predictions).pairs = <<>>

AllPairsFailed ==
    /\ ~FatalInput
    /\ Len(parsed) = Len(structure_pairs)
    /\ Successes = {}

\* C2 as stated: each of the four fatal conditions, zero aggregated tables
\* among them, ends the run with a non-zero exit status and nothing written.
C2_Original ==
    (pc = "done" /\ (FatalInput \/ AllPairsFailed)) =>
        (exit_status = 1 /\ NothingWritten)

\* C2 amended: a missing output directory, a missing scoring-tool path and
\* zero discovered pairs end the run with exit status 1 and nothing written;
\* zero aggregated tables ends it with nothing written and exit status 0.
C2_FatalConditions ==
    /\ (pc = "done" /\ FatalInput) => (exit_status = 1 /\ NothingWritten)
    /\ (pc = "done" /\ AllPairsFailed) => (exit_status = 0 /\ NothingWritten)

\* A finished run in which pairs were discovered and every one failed.
C2_Witness ==
    /\ pc = "done"
    /\ AllPairsFailed
    /\ Len(structure_pairs) > 1

\* C8: nothing is written before every discovered pair has been processed.
C8_WritesAfterLoop ==
    ~NothingWritten =>
        /\ Len(invoked) = Len(structure_pairs)
        /\ Len(parsed) = Len(structure_pairs)
        /\ pc \in {"types", "chain_ab", "chain_ba", "complete", "done"}

\* A first file written in a run of two pairs of which one failed.
C8_Witness ==
    /\ Len(writes) = 1
    /\ Len(structure_pairs) = 2
    /\ Failures # {}

\* What the first k processed pairs parsed, row by row, each row with the
\* columns of its report and the pair it came from.
RECURSIVE ExpectedRows(_)
ExpectedRows(k) ==
    IF k = 0 THEN <<>>
    ELSE ExpectedRows(k - 1) \o
         (IF IsNone(parsed[k]) THEN <<>>
          ELSE [i \in 1..Len(parsed[k].rows) |->
                   [row |-> parsed[k].rows[i],
                    columns |-> parsed[k].columns,
                    pair |-> structure_pairs[k]]])

RECURSIVE Flatten(_)
Flatten(tables) ==
    IF tables = <<>> THEN <<>> ELSE Head(tables).rows \o Flatten(Tail(tables))

\* rows are the expected rows, one for one and in order, as parsed.
CarriesParsed(rows, expected) ==
    /\ Len(rows) = Len(expected)
    /\ \A k \in 1..Len(rows) :
          \A c \in expected[k].columns \ MetaColumns :
             rows[k][c] = expected[k].row[c]

\* every row names the group and the two file basenames of its pair.
CarriesProvenance(rows, expected) ==
    /\ Len(rows) = Len(expected)
    /\ \A k \in 1..Len(rows) :
          /\ rows[k]["input_name"] = expected[k].pair.input_name
          /\ rows[k]["pae_file"] = expected[k].pair.pae_file.base
          /\ rows[k]["cif_file"] = expected[k].pair.cif_file.base

Combined ==
    \/ pc \in {"types", "chain_ab", "chain_ba", "complete"}
    \/ pc = "done" /\ all_results # <<>>

\* C3: the tool is invoked once per pair, in discovery order, whatever the
\* outcomes; a failing pair adds no row and a successful pair adds all of
\* its rows to the combined table.
C3_EveryPairOnce ==
    /\ invoked = SubSeq(structure_pairs, 1, Len(invoked))
    /\ Len(parsed) = Len(invoked)
    /\ pc = "loop" => Len(invoked) = idx - 1
    /\ pc \notin {"start", "discover", "loop"} => invoked = structure_pairs
    /\ CarriesParsed(Flatten(all_results), ExpectedRows(Len(parsed)))
    /\ Combined =>
          CarriesParsed(combined_df.rows, ExpectedRows(Len(parsed)))

\* A combined table made of a first pair's rows, the second pair having
\* failed.
C3_Witness ==
    /\ Combined
    /\ Len(parsed) = 2
    /\ Successes = {1}
    /\ Failures = {2}

\* C6: when a pair gave a table, <prefix>_complete.csv is written and holds
\* the rows of every successful pair, in processing order, each row with the
\* input_name, pae_file and cif_file of its pair.
C6_CompleteFile ==
    pc = "done" =>
        IF Successes = {}
        THEN \A f \in csv_files : f.file # output_file("complete")
        ELSE \E f \in csv_files :
               /\ f.file = output_file("complete")
               /\ CarriesParsed(f.df.rows, ExpectedRows(Len(parsed)))
               /\ CarriesProvenance(f.df.rows, ExpectedRows(Len(parsed)))

\* A finished run of two successful pairs of different groups.
C6_Witness ==
    /\ pc = "done"
    /\ Successes = {1, 2}
    /\ structure_pairs[1].input_name # structure_pairs[2].input_name

\* The rows at the indices keep, in order.
RECURSIVE RowsAt(_, _)
RowsAt(rows, keep) ==
    IF rows = <<>> THEN <<>>
    ELSE LET front == RowsAt(SubSeq(rows, 1, Len(rows) - 1), keep)
         IN  IF Len(rows) \in keep THEN Append(front, rows[Len(rows)])
             ELSE front

WritesBy(by) == {k \in 1..Len(writes) : writes[k].by = by}

RECURSIVE RowsWritten(_)
RowsWritten(ks) ==
    IF ks = {} THEN 0
    ELSE LET k == CHOOSE x \in ks : TRUE
         IN  Len(writes[k].df.rows) + RowsWritten(ks \ {k})

HasType == Combined /\ "Type" \in combined_df.columns

\* The values of the Type column, the absent value among them.
ObservedTypes ==
    {combined_df.rows[i]["Type"] : i \in 1..Len(combined_df.rows)}

TypedRows(v) ==
    RowsAt(combined_df.rows,
           {i \in 1..Len(combined_df.rows) : combined_df.rows[i]["Type"] = v})

\* One write of <prefix>_<v>.csv by the type loop, holding the rows of type v.
OneTypeFile(v) ==
    \E k \in WritesBy("type") :
       /\ writes[k].file = output_file(v)
       /\ writes[k].df.rows = TypedRows(v)
       /\ \A j \in WritesBy("type") :
             writes[j].file = output_file(v) => j = k

\* C4 as stated: one file per distinct value of the Type column, each with
\* the rows of that value, the row counts adding up to the complete table's.
C4_Original ==
    (pc = "done" /\ HasType) =>
        /\ \A v \in ObservedTypes : OneTypeFile(v)
        /\ Cardinality(WritesBy("type")) = Cardinality(ObservedTypes)
        /\ RowsWritten(WritesBy("type")) = Len(combined_df.rows)

\* C4 amended: the type loop writes <prefix>_<v>.csv once per distinct value
\* v of the Type column that is not absent, each write holding exactly the
\* rows of type v; rows with an absent Type go to no per-type file, and the
\* row counts add up to the number of rows whose Type is present.
C4_TypeFiles ==
    (pc = "done" /\ HasType) =>
        /\ \A v \in ObservedTypes \ {NaN} : OneTypeFile(v)
        /\ Cardinality(WritesBy("type")) = Cardinality(ObservedTypes \ {NaN})
        /\ RowsWritten(WritesBy("type"))
             = Cardinality({i \in 1..Len(combined_df.rows) :
                              combined_df.rows[i]["Type"] # NaN})

\* A finished run over two reports, one with a Type column and one without:
\* the combined table has a typed row and a row with an absent Type.
C4_Witness ==
    /\ pc = "done"
    /\ HasType
    /\ NaN \in ObservedTypes
    /\ ObservedTypes # {NaN}
    /\ \E i \in Successes : "Type" \notin parsed[i].columns

HasChains == Combined /\ {"Chn1", "Chn2"} \subseteq combined_df.columns

ChainRows(c1, c2) ==
    RowsAt(combined_df.rows,
           {i \in 1..Len(combined_df.rows) :
               /\ combined_df.rows[i]["Chn1"] = c1
               /\ combined_df.rows[i]["Chn2"] = c2})

\* The chain-direction file tag is written exactly when rows is not empty,
\* and then with exactly those rows.
ChainFile(tag, rows) ==
    IF rows = <<>> THEN WritesBy(tag) = {}
    ELSE \E k \in WritesBy(tag) :
           /\ writes[k].file = output_file(tag)
           /\ writes[k].df.rows = rows
           /\ WritesBy(tag) = {k}

\* C5: with both chain columns in the combined table, with or without a Type
\* column, <prefix>_A_to_B.csv holds the rows A,B and <prefix>_B_to_A.csv the
\* rows B,A, each written only if it has a row.
C5_ChainFiles ==
    (pc = "done" /\ HasChains) =>
        /\ ChainFile("A_to_B", ChainRows("A", "B"))
        /\ ChainFile("B_to_A", ChainRows("B", "A"))

\* C10: no output file of a run overwrites another: when the run ends, what
\* each write put under its name is what the file of that name holds.
C10_NoOverwrite ==
    pc = "done" =>
        \A k \in 1..Len(writes) :
           [file |-> writes[k].file, df |-> writes[k].df] \in csv_files

\* The CIF name the naming convention gives for a PAE name: the prefix
\* pae_<group>_ and the suffix .npz stripped, <group>_ and .cif put on.
SiblingCif(g, pae) ==
    g \o <<"_">> \o SubSeq(pae, Len(g) + 3, Len(pae) - 1) \o <<".cif">>

\* The PAE files of the layout: <<i, j>> is file j of directory i.
PaeFiles ==
    IF ~predictions.exists THEN {}
    ELSE UNION {{<<i, j>> : j \in
                   {j \in 1..Len(predictions.entries[i].files) :
                       /\ predictions.entries[i].isdir
                       /\ GlobMatch(predictions.entries[i].files[j],
                                    predictions.entries[i].name)}} :
                i \in 1..Len(predictions.entries)}

HasSibling(ij) ==
    LET e == predictions.entries[ij[1]]
    IN  SiblingCif(e.name, e.files[ij[2]]) \in Range(e.files)

PairOf(ij) ==
    LET e == predictions.entries[ij[1]]
    IN  [pae_file |-> [dir |-> PredictionsDir \o <<e.name>>,
                       base |-> e.files[ij[2]]],
         cif_file |-> [dir |-> PredictionsDir \o <<e.name>>,
                       base |-> SiblingCif(e.name, e.files[ij[2]])],
         input_name |-> e.name]

FileExists(path) ==
    \E i \in 1..Len(predictions.entries) :
       /\ predictions.entries[i].isdir
       /\ path.dir = PredictionsDir \o <<predictions.entries[i].name>>
       /\ path.base \in Range(predictions.entries[i].files)

\* C7: discovery returns a pair for a PAE file exactly when its sibling CIF
\* exists: N pairs for the N PAE files with a sibling, M warnings for the M
\* without, and no pair with a file that is absent.
C7_Discovery ==
    pc = "found" =>
        /\ Len(structure_pairs)
             = Cardinality({ij \in PaeFiles : HasSibling(ij)})
        /\ warnings = Cardinality({ij \in PaeFiles : ~HasSibling(ij)})
        /\ \A ij \in PaeFiles :
              HasSibling(ij) <=> PairOf(ij) \in Range(structure_pairs)
        /\ \A k \in 1..Len(structure_pairs) :
              /\ FileExists(structure_pairs[k].pae_file)
              /\ FileExists(structure_pairs[k].cif_file)

\* The text of a cutoff in the report's name.
CutoffText(c) ==
    IF c = DefaultCutoff THEN <<"1", "5", ".", "0">> ELSE <<"0", ".", "5">>

\* <structureStem>_<paeCutoff>_<distCutoff>.txt
ReportName(c) ==
    SubSeq(c.cif_file.base, 1, Len(c.cif_file.base) - 1) \o <<"_">>
        \o CutoffText(c.pae_cutoff) \o <<"_">> \o CutoffText(c.dist_cutoff)
        \o <<".txt">>

ReportHere(c) == [dir |-> <<>>, base |-> ReportName(c)]

ReportBeside(c) == [dir |-> c.cif_file.dir, base |-> ReportName(c)]

Returned(path) == ~IsNone(ret) /\ ret = path

\* C9: after exit status zero run_ipsae returns the report in the current
\* directory if it exists there, else the one beside the structure file if
\* it exists, else failure; after any other outcome it returns failure.
C9_ReportLookup ==
    pc = "returned" =>
        IF call.status # "ok" THEN IsNone(ret)
        ELSE IF ReportHere(call) \in call.exists
             THEN Returned(ReportHere(call))
        ELSE IF ReportBeside(call) \in call.exists
             THEN Returned(ReportBeside(call))
        ELSE IsNone(ret)

\* The report exists in both places and the current-directory one came back.
C9_Witness ==
    /\ pc = "returned"
    /\ call.status = "ok"
    /\ ReportHere(call) \in call.exists
    /\ ReportBeside(call) \in call.exists
    /\ Returned(ReportHere(call))

=============================================================================
